---- MODULE Spec2Model ----
(***************************************************************************)
(* Model of the parallel device-targeting bot (src/unnamed/part_000):      *)
(* the orchestrator main(), the worker processes run_worker(), the retry   *)
(* wrapper safe_apply(), the ledger init_master_csv()/write_csv(), the     *)
(* partitioner chunk_list() and the selection helper check_model().        *)
(***************************************************************************)
EXTENDS Integers, Sequences, FiniteSets, TLC

\* ------------------------------------------------------------------ CONFIG
WORKERS == 3
MAX_RETRIES == 3
RESET_EVERY == 2

\* ------------------------------------------------------------------ bounds
\* longest campaigns.txt explored by the orchestration specification
MaxCampaigns == 2
\* campaigns of one run on which driver calls may fail
MaxFlaky == 1
\* longest list handed to chunk_list, and largest worker count, on its own
MaxChunkLen == 4
MaxChunkWorkers == 4
\* consecutive runs of the program over one ledger file, and their longest
\* campaigns.txt
MaxRuns == 2
RunsCampaigns == 2
\* longest models.txt explored by the selection specification
MaxModels == 2
\* most name=value fields of a template URL's query, and the longest value
MaxParams == 2
MaxValueLen == 1

\* ------------------------------------------------------------------ values
\* lines of campaigns.txt: opaque, pairwise different strings
CampaignIds == <<"A", "B", "C", "D", "E", "F", "G", "H">>

Min(a, b) == IF a < b THEN a ELSE b

\* str(n) as csv.writer renders an int cell
str(n) == <<"0", "1", "2", "3", "4", "5", "6", "7", "8", "9">>[n + 1]

\* worker ids: enumerate(chunks) numbers the processes from 0
Workers == 0..(WORKERS - 1)

\* the treeitems of the device dialog in DOM order; a label is its text,
\* character by character
TreeLabels == << <<"S", "2">>, <<"S">>, <<"X">> >>
\* the brand rows of the dialog in DOM order, and the brand row each
\* treeitem of TreeLabels sits under
DialogBrands == <<"Samsung", "Xiaomi">>
ParentOf == <<1, 1, 2>>
\* the labels apply_targeting expands, in its order ("Apple" has no row in
\* this dialog)
brands == <<"Apple", "Samsung", "Xiaomi">>
\* lines models.txt may hold (<<"Z">> is in no treeitem)
ModelNames == { <<"S">>, <<"S", "2">>, <<"X">>, <<"Z">> }
\* models.txt of the orchestration runs
ModelsFile == << <<"S", "2">>, <<"X">> >>

VARIABLES
    campaigns,    \* read_lines("campaigns.txt")
    workerCount,  \* the configured WORKERS of this run (1..WORKERS)
    startMethod,  \* multiprocessing start method of the platform
    budget,       \* how many campaigns of a run may meet failing driver calls
    mainpc,       \* position of main()
    chunks,       \* list(chunk_list(campaigns, WORKERS))
    procs,        \* worker ids whose Process has been started
    wpc,          \* position of each run_worker
    idx,          \* enumerate(campaigns, 1) counter of each worker
    attempt,      \* safe_apply's loop variable of each worker
    page,         \* what each worker's browser page shows
    pending,      \* the row each worker is about to hand to write_csv
    csv_lock,     \* the Lock objects currently held
    csvExists,    \* os.path.exists(CSV_PATH)
    csv,          \* rows of CSV_PATH
    navlog,       \* history: page.goto targets of each worker, in order
    calls,        \* history: apply_targeting calls per campaign
    fails,        \* history: apply_targeting calls that raised, per campaign
    returned,     \* history: campaigns whose safe_apply has returned
    flaky,        \* history: campaigns that met a failing driver call
    runs,         \* history: runs of main() started so far
    runBase,      \* history: Len(csv) when this run started
    tree,         \* selection: aria-checked of each treeitem
    selModels,    \* selection: models.txt
    selRun,       \* selection: which pass over the models (1 or 2)
    selPos,       \* selection: index of the next model
    applied,      \* selection: applied counter of this pass
    skipped,      \* selection: skipped counter of this pass
    raisedAt,     \* selection history: models whose check_model raised, by pass
    okAt,         \* selection history: models check_model applied, by pass
    before,       \* selection history: tree when pass 1 started
    expanded,     \* selection: aria-expanded of each brand row
    brandPos,     \* selection: index of the next label of brands
    template_url, \* the URL typed at the prompt, as urlparse splits it
    campaign_url  \* the id and the URL construct_campaign_url was called
                  \* with and returned

mainVars == <<campaigns, workerCount, startMethod, budget, mainpc, chunks, procs>>
workerVars == <<wpc, idx, attempt, page, pending>>
ledgerVars == <<csv_lock, csvExists, csv>>
histVars == <<navlog, calls, fails, returned, flaky, runs, runBase>>
selVars == <<tree, selModels, selRun, selPos, applied, skipped, raisedAt, okAt,
            before, expanded, brandPos>>
urlVars == <<template_url, campaign_url>>
vars == <<mainVars, workerVars, ledgerVars, histVars, selVars, urlVars>>

\* ============================================================== UTILITIES

\* chunk_list(lst, n): the chunks the generator yields, in order, and whether
\* it raised (range() with step 0 raises ValueError before any chunk)
chunk_list_short(lst, n) ==
    LET size == (Len(lst) + n - 1) \div n
    IN  IF size = 0
        THEN [raised |-> TRUE, chunks |-> <<>>]
        ELSE [raised |-> FALSE,
              chunks |-> [k \in 1..((Len(lst) + size - 1) \div size) |->
                            SubSeq(lst, (k - 1) * size + 1,
                                   Min(k * size - 1, Len(lst)))]]

chunk_list(lst, n) ==
    LET size == (Len(lst) + n - 1) \div n
    IN  IF size = 0
        THEN [raised |-> TRUE, chunks |-> <<>>]
        ELSE [raised |-> FALSE,
              chunks |-> [k \in 1..((Len(lst) + size - 1) \div size) |->
                            SubSeq(lst, (k - 1) * size + 1,
                                   Min(k * size, Len(lst)))]]

RECURSIVE Flatten(_)
Flatten(ss) == IF ss = <<>> THEN <<>> ELSE Head(ss) \o Flatten(Tail(ss))

\* =================================================================== CSV
\* one CSV record; every cell is the text csv.writer writes
Row_from0(worker_id, cid, att, app, skp, status, message) ==
    [timestamp |-> "now", worker_id |-> str(worker_id), campaign_id |-> cid,
     attempt |-> str(att - 1), applied |-> app, skipped |-> skp,
     status |-> status, message |-> message]

Row(worker_id, cid, att, app, skp, status, message) ==
    [timestamp |-> "now", worker_id |-> str(worker_id), campaign_id |-> cid,
     attempt |-> str(att), applied |-> app, skipped |-> skp,
     status |-> status, message |-> message]

HeaderRow ==
    [timestamp |-> "timestamp", worker_id |-> "worker_id",
     campaign_id |-> "campaign_id", attempt |-> "attempt",
     applied |-> "applied", skipped |-> "skipped",
     status |-> "status", message |-> "message"]

\* init_master_csv() on the file f = [exists, rows]
init_master_csv_truncating(f) == [exists |-> TRUE, rows |-> <<HeaderRow>>]

init_master_csv(f) ==
    IF ~f.exists THEN [exists |-> TRUE, rows |-> <<HeaderRow>>] ELSE f

\* open(CSV_PATH, "a") ... writerow(row): creates the file when missing and
\* puts the record after the last one
append_row(f, row) == [exists |-> TRUE, rows |-> Append(f.rows, row)]

\* the Lock object a worker's write_csv uses: under fork the child inherits
\* the parent's csv_lock; under spawn the child imports the module again and
\* line 20 makes a Lock of its own
MainLock == -1
LockOf(w) == IF startMethod = "fork" THEN MainLock ELSE w

\* ============================================================ UI HELPERS
\* filter(has_text=model): the label contains the model's text
HasText(label, model) ==
    \E i \in 1..(Len(label) - Len(model) + 1) :
        SubSeq(label, i, i + Len(model) - 1) = model

\* the treeitems the dialog renders: those under an expanded brand row
Shown(exp) == {i \in DOMAIN TreeLabels : exp[ParentOf[i]]}

\* the rendered treeitems matching the model, in DOM order
Matching(shown, model) == {i \in shown : HasText(TreeLabels[i], model)}

First(S) == CHOOSE i \in S : \A j \in S : i <= j

\* expand_brand(modal, name) on the aria-expanded map exp. fault names what
\* goes wrong: "lookup" (locator, count, is_visible raises), "hidden"
\* (is_visible() is False), "click" (scroll_into_view_if_needed or click
\* raises) or "none". exc is whether an exception leaves the function.
expand_brand(exp, name, fault) ==
    LET rows == {b \in DOMAIN DialogBrands : DialogBrands[b] = name /\ ~exp[b]}
    IN  IF fault = "lookup" THEN [expanded |-> exp, exc |-> FALSE]
        ELSE IF rows = {} \/ fault = "hidden" THEN [expanded |-> exp, exc |-> FALSE]
        ELSE IF fault = "click" THEN [expanded |-> exp, exc |-> FALSE]
        ELSE [expanded |-> [exp EXCEPT ![First(rows)] = TRUE], exc |-> FALSE]

\* check_model(modal, model) on the aria-checked map t of a dialog rendering
\* the rows shown. fault names the driver call that raises: "lookup"
\* (locator, count, get_attribute), "click" (scroll_into_view_if_needed,
\* click: reached for an unchecked row only) or "none". ok is the returned
\* value, raised whether the except clause ran, exc whether an exception
\* leaves the function.
check_model_toggling(t, shown, model, fault) ==
    IF fault = "lookup" THEN [ok |-> FALSE, tree |-> t, raised |-> TRUE, exc |-> FALSE]
    ELSE IF Matching(shown, model) = {}
         THEN [ok |-> FALSE, tree |-> t, raised |-> FALSE, exc |-> FALSE]
    ELSE LET r == First(Matching(shown, model))
         IN  IF fault = "click"
             THEN [ok |-> FALSE, tree |-> t, raised |-> TRUE, exc |-> FALSE]
             ELSE [ok |-> TRUE, tree |-> [t EXCEPT ![r] = ~t[r]],
                   raised |-> FALSE, exc |-> FALSE]

check_model_uncaught(t, shown, model, fault) ==
    IF fault = "lookup" THEN [ok |-> FALSE, tree |-> t, raised |-> TRUE, exc |-> TRUE]
    ELSE IF Matching(shown, model) = {}
         THEN [ok |-> FALSE, tree |-> t, raised |-> FALSE, exc |-> FALSE]
    ELSE LET r == First(Matching(shown, model))
         IN  IF t[r] THEN [ok |-> FALSE, tree |-> t, raised |-> FALSE, exc |-> FALSE]
             ELSE IF fault = "click"
                  THEN [ok |-> FALSE, tree |-> t, raised |-> TRUE, exc |-> TRUE]
                  ELSE [ok |-> TRUE, tree |-> [t EXCEPT ![r] = ~t[r]],
                        raised |-> FALSE, exc |-> FALSE]

check_model(t, shown, model, fault) ==
    IF fault = "lookup" THEN [ok |-> FALSE, tree |-> t, raised |-> TRUE, exc |-> FALSE]
    ELSE IF Matching(shown, model) = {}
         THEN [ok |-> FALSE, tree |-> t, raised |-> FALSE, exc |-> FALSE]
    ELSE LET r == First(Matching(shown, model))
         IN  IF t[r] THEN [ok |-> FALSE, tree |-> t, raised |-> FALSE, exc |-> FALSE]
             ELSE IF fault = "click"
                  THEN [ok |-> FALSE, tree |-> t, raised |-> TRUE, exc |-> FALSE]
                  ELSE [ok |-> TRUE, tree |-> [t EXCEPT ![r] = ~t[r]],
                        raised |-> FALSE, exc |-> FALSE]

\* the loop of apply_targeting over models[pos..] in a dialog whose brand
\* rows were all expanded, where the lookup of model number f raises (f = 0:
\* none does)
RECURSIVE SelectionLoop(_, _, _, _)
SelectionLoop(t, ms, pos, f) ==
    IF pos > Len(ms) THEN [applied |-> 0, skipped |-> 0, tree |-> t]
    ELSE LET r == check_model(t, DOMAIN TreeLabels, ms[pos],
                              IF pos = f THEN "lookup" ELSE "none")
             rest == SelectionLoop(r.tree, ms, pos + 1, f)
         IN  [applied |-> rest.applied + (IF r.ok THEN 1 ELSE 0),
              skipped |-> rest.skipped + (IF r.ok THEN 0 ELSE 1),
              tree |-> rest.tree]

\* aria-checked of the dialog of a campaign page right after page.goto
FreshTree == <<FALSE, TRUE, FALSE>>
\* no dialog on the page
NoTree == <<FALSE, FALSE, FALSE>>

\* =================================================================== URL
\* a URL as urlparse splits it; the query is the text between ? and #, here
\* its name=value fields in order, each value a string of raw characters
\* ("+" and "%20" both stand for a space)
QueryNames == {"campaignId", "z"}
RawChars == {"1", "+", "%20"}

\* urllib.parse.unquote_plus / quote_plus on one value
unquote_plus(raw) ==
    [i \in DOMAIN raw |-> IF raw[i] \in {"+", "%20"} THEN " " ELSE raw[i]]
quote_plus(v) == [i \in DOMAIN v |-> IF v[i] = " " THEN "+" ELSE v[i]]

IsNonBlank(field) == field[2] # <<>>

\* the names of the fields, each once, in the order of first occurrence
RECURSIVE KeysOf(_)
KeysOf(fields) ==
    IF fields = <<>> THEN <<>>
    ELSE LET rest == KeysOf(SubSeq(fields, 1, Len(fields) - 1))
             name == fields[Len(fields)][1]
         IN  IF \E i \in DOMAIN rest : rest[i] = name THEN rest
             ELSE Append(rest, name)

\* the decoded values of the fields called name, in order
ValuesOf(fields, name) ==
    LET Named(f) == f[1] = name
        mine == SelectSeq(fields, Named)
    IN  [i \in DOMAIN mine |-> unquote_plus(mine[i][2])]

\* parse_qs(query) with its default keep_blank_values=False: a dict from name
\* to the list of decoded values, fields with a blank value left out; here
\* the items of the dict in insertion order
parse_qs(query) ==
    LET kept == SelectSeq(query, IsNonBlank)
        keys == KeysOf(kept)
    IN  [i \in DOMAIN keys |-> <<keys[i], ValuesOf(kept, keys[i])>>]

\* q[name] = values on a dict: in place when the key exists, else at the end
SetItem(q, name, values) ==
    IF \E i \in DOMAIN q : q[i][1] = name
    THEN [i \in DOMAIN q |-> IF q[i][1] = name THEN <<name, values>> ELSE q[i]]
    ELSE Append(q, <<name, values>>)

\* urlencode(q, doseq=True): one name=value field per value of each key
RECURSIVE urlencode(_)
urlencode(q) ==
    IF q = <<>> THEN <<>>
    ELSE LET name == Head(q)[1]
             values == Head(q)[2]
         IN  [i \in DOMAIN values |-> <<name, quote_plus(values[i])>>]
             \o urlencode(Tail(q))

\* construct_campaign_url(base, cid), lines 66-70
construct_campaign_url(base, cid) ==
    LET q == SetItem(parse_qs(base.query), "campaignId", <<cid>>)
    IN  [base EXCEPT !.query = urlencode(q)]

NoUrl == [scheme |-> "", netloc |-> "", path |-> "", query |-> <<>>, fragment |-> ""]

\* no URL is being constructed
UrlIdle ==
    /\ template_url = NoUrl
    /\ campaign_url = [cid |-> <<>>, url |-> NoUrl]

\* ========================================================== initial states
CampaignList(n) == SubSeq(CampaignIds, 1, n)
AllCampaigns == {CampaignIds[i] : i \in DOMAIN CampaignIds}

\* the selection engine at rest
SelIdle ==
    /\ tree = NoTree
    /\ selModels = <<>>
    /\ selRun = 0
    /\ selPos = 0
    /\ applied = 0
    /\ skipped = 0
    /\ raisedAt = <<{}, {}>>
    /\ okAt = <<{}, {}>>
    /\ before = NoTree
    /\ expanded = [b \in DOMAIN DialogBrands |-> FALSE]
    /\ brandPos = 0

\* nothing of a run has happened yet
Fresh ==
    /\ chunks = <<>>
    /\ procs = {}
    /\ wpc = [w \in Workers |-> "idle"]
    /\ idx = [w \in Workers |-> 0]
    /\ attempt = [w \in Workers |-> 0]
    /\ page = [w \in Workers |-> "closed"]
    /\ pending = [w \in Workers |-> <<>>]
    /\ csv_lock = {}
    /\ navlog = [w \in Workers |-> <<>>]
    /\ calls = [c \in AllCampaigns |-> 0]
    /\ fails = [c \in AllCampaigns |-> 0]
    /\ returned = {}
    /\ flaky = {}

\* the program is started for the first time: no ledger file yet
Init ==
    /\ campaigns \in {CampaignList(n) : n \in 0..MaxCampaigns}
    /\ workerCount \in 1..WORKERS
    /\ startMethod \in {"fork", "spawn"}
    /\ budget = MaxFlaky
    /\ mainpc = "init"
    /\ Fresh
    /\ csvExists = FALSE
    /\ csv = <<>>
    /\ runs = 1
    /\ runBase = 0
    /\ SelIdle
    /\ UrlIdle

\* ================================================================== MAIN
\* the driver may fail while the worker handles campaign c
MayFail(c) == c \in flaky \/ Cardinality(flaky) < budget

\* main(), lines 261-266: init_master_csv() and the reads of the inputs
MainInit ==
    /\ mainpc = "init"
    /\ LET f == init_master_csv([exists |-> csvExists, rows |-> csv])
       IN  /\ csvExists' = f.exists
           /\ csv' = f.rows
    /\ mainpc' = "chunk"
    /\ UNCHANGED <<campaigns, workerCount, startMethod, budget, chunks, procs>>
    /\ UNCHANGED <<workerVars, csv_lock, histVars, selVars, urlVars>>

\* main(), line 268: list(chunk_list(campaigns, WORKERS)); a ValueError
\* ends main() there
MainChunk ==
    /\ mainpc = "chunk"
    /\ LET r == chunk_list(campaigns, workerCount)
       IN  IF r.raised
           THEN /\ mainpc' = "crashed"
                /\ chunks' = chunks
           ELSE /\ mainpc' = "start"
                /\ chunks' = r.chunks
    /\ UNCHANGED <<campaigns, workerCount, startMethod, budget, procs>>
    /\ UNCHANGED <<workerVars, ledgerVars, histVars, selVars, urlVars>>

\* main(), lines 273-279: one Process per chunk is started, numbered from 0
MainStart ==
    /\ mainpc = "start"
    /\ procs = {}
    /\ procs' = 0..(Len(chunks) - 1)
    /\ wpc' = [w \in Workers |-> IF w < Len(chunks) THEN "start" ELSE wpc[w]]
    /\ mainpc' = "join"
    /\ UNCHANGED <<campaigns, workerCount, startMethod, budget, chunks>>
    /\ UNCHANGED <<idx, attempt, page, pending>>
    /\ UNCHANGED <<ledgerVars, histVars, selVars, urlVars>>

Terminated(w) == wpc[w] \in {"done", "crashed"}

\* main(), lines 281-284: every join() has returned; "ALL CAMPAIGNS DONE"
MainJoin ==
    /\ mainpc = "join"
    /\ \A w \in procs : Terminated(w)
    /\ mainpc' = "done"
    /\ UNCHANGED <<campaigns, workerCount, startMethod, budget, chunks, procs>>
    /\ UNCHANGED <<workerVars, ledgerVars, histVars, selVars, urlVars>>

\* ========================================================= CAMPAIGN CORE
\* the fallible driver calls of apply_targeting, lines 124-158, in order
FailSteps ==
    {"load", "selector", "additional", "devices", "models", "modal",
     "done", "save"}

\* what the page shows when the call raised: whatever the attempt left
PageAfter(step, was) == "stale"

\* type(e).__name__ of the exception the driver raises
ExcName(step) == "TimeoutError"

\* aria-checked of the dialog apply_targeting opens: the campaign's stored
\* selection on a page that was just loaded; on a page an earlier attempt
\* left behind the console may also still show that attempt's ticks
DialogTrees(p) ==
    IF p = "campaign" THEN {FreshTree}
    ELSE {FreshTree, SelectionLoop(FreshTree, ModelsFile, 1, 0).tree}

\* safe_apply, lines 172-184: call number n of apply_targeting for cid
\* returns (applied, skipped) and the SAVED row is built; the dialog shows t
\* and the lookup of model f raises inside check_model (0: none does)
AttemptOk(w, cid, n, t, f) ==
    /\ f > 0 => MayFail(cid)
    /\ LET r == SelectionLoop(t, ModelsFile, 1, f)
       IN  pending' = [pending EXCEPT ![w] =
                 <<Row(w, cid, n, str(r.applied), str(r.skipped),
                       "SAVED", "OK")>>]
    /\ page' = [page EXCEPT ![w] = "saved"]
    /\ calls' = [calls EXCEPT ![cid] = @ + 1]
    /\ fails' = fails
    /\ flaky' = IF f > 0 THEN flaky \cup {cid} ELSE flaky

\* as AttemptFail, but a failure of the Save click after the Done click went
\* through is recorded as a success
AttemptFail_partial(w, cid, n, step, was) ==
    /\ MayFail(cid)
    /\ pending' = [pending EXCEPT ![w] =
          IF step = "save"
          THEN LET r == SelectionLoop(FreshTree, ModelsFile, 1, 0)
               IN  <<Row(w, cid, n, str(r.applied), str(r.skipped), "SAVED", "OK")>>
          ELSE <<Row(w, cid, n, "", "", "RETRY", ExcName(step))>>]
    /\ page' = [page EXCEPT ![w] = PageAfter(step, was)]
    /\ calls' = [calls EXCEPT ![cid] = @ + 1]
    /\ fails' = [fails EXCEPT ![cid] = @ + 1]
    /\ flaky' = flaky \cup {cid}

\* safe_apply, lines 172-173 and 187-199: call number n of apply_targeting
\* for cid raises at a step, on a page that showed `was`, and the RETRY row
\* is built
AttemptFail(w, cid, n, step, was) ==
    /\ MayFail(cid)
    /\ pending' = [pending EXCEPT ![w] =
          <<Row(w, cid, n, "", "", "RETRY", ExcName(step))>>]
    /\ page' = [page EXCEPT ![w] = PageAfter(step, was)]
    /\ calls' = [calls EXCEPT ![cid] = @ + 1]
    /\ fails' = [fails EXCEPT ![cid] = @ + 1]
    /\ flaky' = flaky \cup {cid}

\* one round of safe_apply's loop up to its write_csv call
Attempt(w, cid, n, was) ==
    \/ \E t \in DialogTrees(was), f \in 0..Len(ModelsFile) :
          AttemptOk(w, cid, n, t, f)
    \/ \E step \in FailSteps : AttemptFail(w, cid, n, step, was)

\* ================================================================ WORKER
Chunk(w) == chunks[w + 1]
Cid(w) == Chunk(w)[idx[w]]

\* line 242
NeedsReset_odd(k) == k % RESET_EVERY = 1
NeedsReset(k) == k % RESET_EVERY = 0

\* the for loop of run_worker, line 239, at counter k: the next campaign,
\* or past the chunk
NextIter(w, k) == IF k > Len(Chunk(w)) THEN "close" ELSE "iter"

\* lines 250-251: safe_apply has returned after a row with this status;
\* run_worker does not look at the outcome and goes on with its loop
AfterSafeApply_stop(w, status) ==
    IF status = "SKIPPED" THEN "close" ELSE NextIter(w, idx[w] + 1)

AfterSafeApply(w, status) == NextIter(w, idx[w] + 1)

\* as Crash, but the exception takes every running worker down with it
Crash_all(w, c) ==
    /\ MayFail(c)
    /\ wpc' = [v \in Workers |->
                 IF v = w \/ wpc[v] \in {"iter", "lock"} THEN "crashed" ELSE wpc[v]]
    /\ page' = [v \in Workers |->
                 IF v = w \/ wpc[v] \in {"iter", "lock"} THEN "closed" ELSE page[v]]
    /\ flaky' = flaky \cup {c}

\* a driver call of run_worker raises while campaign c is next: the
\* exception leaves run_worker and the process ends, its browser with it
Crash(w, c) ==
    /\ MayFail(c)
    /\ wpc' = [wpc EXCEPT ![w] = "crashed"]
    /\ page' = [page EXCEPT ![w] = "closed"]
    /\ flaky' = flaky \cup {c}

\* run_worker, lines 223-237: the browser is launched and shows the template
WorkerStart(w) ==
    /\ wpc[w] = "start"
    /\ wpc' = [wpc EXCEPT ![w] = NextIter(w, 1)]
    /\ idx' = [idx EXCEPT ![w] = 1]
    /\ page' = [page EXCEPT ![w] = "template"]
    /\ navlog' = [navlog EXCEPT ![w] = Append(@, "template")]
    /\ UNCHANGED <<mainVars, attempt, pending, ledgerVars, selVars, urlVars>>
    /\ UNCHANGED <<calls, fails, returned, flaky, runs, runBase>>

\* run_worker, lines 229-237: the launch or the first page.goto raises
WorkerStartFault(w) ==
    /\ wpc[w] = "start"
    /\ Chunk(w) # <<>>
    /\ Crash(w, Chunk(w)[1])
    /\ UNCHANGED <<mainVars, idx, attempt, pending, ledgerVars, selVars, urlVars>>
    /\ UNCHANGED <<navlog, calls, fails, returned, runs, runBase>>

\* the page.goto calls of the hard reset, lines 242-247, at counter k
ResetNavs(k) == IF NeedsReset(k) THEN <<"about:blank", "template">> ELSE <<>>

\* run_worker, lines 239-250: one round of the loop up to the first
\* write_csv of safe_apply: the hard reset when it is due, the navigation to
\* the campaign, and the first call of apply_targeting
Iterate(w) ==
    /\ wpc[w] = "iter"
    /\ navlog' = [navlog EXCEPT ![w] = @ \o ResetNavs(idx[w]) \o <<Cid(w)>>]
    /\ attempt' = [attempt EXCEPT ![w] = 1]
    /\ Attempt(w, Cid(w), 1, "campaign")
    /\ wpc' = [wpc EXCEPT ![w] = "lock"]
    /\ UNCHANGED <<mainVars, idx, ledgerVars, selVars, urlVars>>
    /\ UNCHANGED <<returned, runs, runBase>>

\* run_worker, lines 244-247: one of the reset's three driver calls raises
ResetFault(w, at) ==
    /\ wpc[w] = "iter"
    /\ NeedsReset(idx[w])
    /\ Crash(w, Cid(w))
    /\ navlog' = [navlog EXCEPT ![w] =
                    IF at = "about:blank" THEN @
                    ELSE IF at = "template" THEN Append(@, "about:blank")
                    ELSE @ \o <<"about:blank", "template">>]
    /\ UNCHANGED <<mainVars, idx, attempt, pending, ledgerVars, selVars, urlVars>>
    /\ UNCHANGED <<calls, fails, returned, runs, runBase>>

\* run_worker, line 249: page.goto of the campaign URL raises
GotoFault(w) ==
    /\ wpc[w] = "iter"
    /\ Crash(w, Cid(w))
    /\ navlog' = [navlog EXCEPT ![w] = @ \o ResetNavs(idx[w])]
    /\ UNCHANGED <<mainVars, idx, attempt, pending, ledgerVars, selVars, urlVars>>
    /\ UNCHANGED <<calls, fails, returned, runs, runBase>>

\* ========================================================== SAFE WRAPPER
\* write_csv, line 50: with csv_lock
Acquire(w) ==
    /\ wpc[w] = "lock"
    /\ LockOf(w) \notin csv_lock
    /\ csv_lock' = csv_lock \cup {LockOf(w)}
    /\ wpc' = [wpc EXCEPT ![w] = "write"]
    /\ UNCHANGED <<mainVars, idx, attempt, page, pending>>
    /\ UNCHANGED <<csvExists, csv, histVars, selVars, urlVars>>

\* what safe_apply does once a row of the given status is written in
\* attempt att: "return", "skip" (the SKIPPED row, lines 201-213) or "retry"
\* (the sleep and the next round of the loop, line 215 and line 171)
AfterRow_unbounded(status, att) ==
    IF status \in {"SAVED", "SKIPPED"} THEN "return" ELSE "retry"

AfterRow_early(status, att) ==
    IF status \in {"SAVED", "SKIPPED"} THEN "return"
    ELSE IF att >= MAX_RETRIES - 1 THEN "skip"
    ELSE "retry"

AfterRow(status, att) ==
    IF status \in {"SAVED", "SKIPPED"} THEN "return"
    ELSE IF att = MAX_RETRIES THEN "skip"
    ELSE IF att + 1 \in 1..MAX_RETRIES THEN "retry"
    ELSE "return"

\* write_csv, lines 51-52, and the release of the lock
WriteRow(w) ==
    LET f == append_row([exists |-> csvExists, rows |-> csv], Head(pending[w]))
    IN  /\ csvExists' = f.exists
        /\ csv' = f.rows
        /\ csv_lock' = csv_lock \ {LockOf(w)}

\* write_csv, then safe_apply builds the SKIPPED row, lines 201-211
WriteSkip(w) ==
    /\ wpc[w] = "write"
    /\ AfterRow(Head(pending[w]).status, attempt[w]) = "skip"
    /\ WriteRow(w)
    /\ pending' = [pending EXCEPT ![w] =
          <<Row(w, Cid(w), attempt[w], "", "", "SKIPPED", "MAX_RETRIES")>>]
    /\ wpc' = [wpc EXCEPT ![w] = "lock"]
    /\ UNCHANGED <<mainVars, idx, attempt, page, selVars, urlVars>>
    /\ UNCHANGED <<navlog, calls, fails, returned, flaky, runs, runBase>>

\* write_csv, then the sleep and the next round of safe_apply's loop, lines
\* 215 and 171-199, up to its write_csv
WriteRetry(w) ==
    /\ wpc[w] = "write"
    /\ AfterRow(Head(pending[w]).status, attempt[w]) = "retry"
    /\ WriteRow(w)
    /\ attempt' = [attempt EXCEPT ![w] = @ + 1]
    /\ Attempt(w, Cid(w), attempt[w] + 1, page[w])
    /\ wpc' = [wpc EXCEPT ![w] = "lock"]
    /\ UNCHANGED <<mainVars, idx, selVars, urlVars>>
    /\ UNCHANGED <<navlog, returned, runs, runBase>>

\* write_csv, then safe_apply returns and run_worker sleeps and goes to the
\* next round of its loop, lines 185/213 and 251
WriteReturn(w) ==
    /\ wpc[w] = "write"
    /\ AfterRow(Head(pending[w]).status, attempt[w]) = "return"
    /\ WriteRow(w)
    /\ pending' = [pending EXCEPT ![w] = <<>>]
    /\ attempt' = [attempt EXCEPT ![w] = 0]
    /\ returned' = returned \cup {Cid(w)}
    /\ idx' = [idx EXCEPT ![w] = @ + 1]
    /\ wpc' = [wpc EXCEPT ![w] = AfterSafeApply(w, Head(pending[w]).status)]
    /\ UNCHANGED <<mainVars, page, selVars, urlVars>>
    /\ UNCHANGED <<navlog, calls, fails, flaky, runs, runBase>>

\* run_worker, lines 253-254: context.close()
Close(w) ==
    /\ wpc[w] = "close"
    /\ wpc' = [wpc EXCEPT ![w] = "done"]
    /\ page' = [page EXCEPT ![w] = "closed"]
    /\ UNCHANGED <<mainVars, idx, attempt, pending, ledgerVars, histVars, selVars, urlVars>>

\* one step of worker w
Worker(w) ==
    \/ WorkerStart(w)
    \/ WorkerStartFault(w)
    \/ Iterate(w)
    \/ \E at \in {"about:blank", "template", "load"} : ResetFault(w, at)
    \/ GotoFault(w)
    \/ Acquire(w)
    \/ WriteSkip(w)
    \/ WriteRetry(w)
    \/ WriteReturn(w)
    \/ Close(w)

Next ==
    \/ MainInit
    \/ MainChunk
    \/ MainStart
    \/ MainJoin
    \/ \E w \in Workers : Worker(w)

Spec == Init /\ [][Next]_vars

\* the scheduler runs main() and every started worker process
Fairness ==
    /\ WF_vars(MainInit \/ MainChunk \/ MainStart \/ MainJoin)
    /\ \A w \in Workers : WF_vars(Worker(w))

FairSpec == Init /\ [][Next]_vars /\ Fairness

\* ----------------------------------------------- the end-to-end scenario
\* campaigns [A, B, C, D, E] and workerCount = 2, the driver failing for at
\* most one of the campaigns
InitScenario ==
    /\ campaigns = <<"A", "B", "C", "D", "E">>
    /\ workerCount = 2
    /\ startMethod \in {"fork", "spawn"}
    /\ budget = Min(1, MaxFlaky)
    /\ mainpc = "init"
    /\ Fresh
    /\ csvExists = FALSE
    /\ csv = <<>>
    /\ runs = 1
    /\ runBase = 0
    /\ SelIdle
    /\ UrlIdle

InitE2E == Init \/ InitScenario

SpecE2E == InitE2E /\ [][Next]_vars

\* ------------------------------------------------- chunk_list on its own
\* the lists of at most n pairwise different elements of S
InjSeqs(S, n) ==
    UNION {{q \in [1..k -> S] : \A i, j \in 1..k : i # j => q[i] # q[j]} :
           k \in 0..n}

\* main() is about to partition any list of campaigns over any worker count
InitChunk ==
    /\ campaigns \in InjSeqs({CampaignIds[i] : i \in 1..MaxChunkLen}, MaxChunkLen)
    /\ workerCount \in 1..MaxChunkWorkers
    /\ startMethod = "fork"
    /\ budget = 0
    /\ mainpc = "chunk"
    /\ Fresh
    /\ csvExists = TRUE
    /\ csv = <<HeaderRow>>
    /\ runs = 1
    /\ runBase = 0
    /\ SelIdle
    /\ UrlIdle

SpecChunk == InitChunk /\ [][MainChunk]_vars

\* ------------------------------------------- consecutive runs of main()
\* the program is started again on the ledger the earlier runs left
NextRun ==
    /\ mainpc \in {"done", "crashed"}
    /\ runs < MaxRuns
    /\ runs' = runs + 1
    /\ runBase' = Len(csv)
    /\ campaigns' \in {CampaignList(n) : n \in 0..RunsCampaigns}
    /\ mainpc' = "init"
    /\ chunks' = <<>>
    /\ procs' = {}
    /\ wpc' = [w \in Workers |-> "idle"]
    /\ idx' = [w \in Workers |-> 0]
    /\ attempt' = [w \in Workers |-> 0]
    /\ page' = [w \in Workers |-> "closed"]
    /\ pending' = [w \in Workers |-> <<>>]
    /\ navlog' = [w \in Workers |-> <<>>]
    /\ calls' = [c \in AllCampaigns |-> 0]
    /\ fails' = [c \in AllCampaigns |-> 0]
    /\ returned' = {}
    /\ flaky' = {}
    /\ UNCHANGED <<workerCount, startMethod, budget, ledgerVars, selVars, urlVars>>

\* a run in which no driver call fails
InitRuns ==
    /\ campaigns \in {CampaignList(n) : n \in 0..RunsCampaigns}
    /\ workerCount \in 1..WORKERS
    /\ startMethod \in {"fork", "spawn"}
    /\ budget = 0
    /\ mainpc = "init"
    /\ Fresh
    /\ csvExists = FALSE
    /\ csv = <<>>
    /\ runs = 1
    /\ runBase = 0
    /\ SelIdle
    /\ UrlIdle

\* the steps of such a run
NextCalm ==
    \/ MainInit
    \/ MainChunk
    \/ MainStart
    \/ MainJoin
    \/ \E w \in Workers :
          \/ WorkerStart(w)
          \/ Iterate(w)
          \/ Acquire(w)
          \/ WriteReturn(w)
          \/ Close(w)

NextRuns == NextCalm \/ NextRun

SpecRuns == InitRuns /\ [][NextRuns]_vars

\* ------------------------------------------------- the selection engine
\* the lists of at most n elements of S
Seqs(S, n) == UNION {[1..k -> S] : k \in 0..n}

\* the dialog is open on any tree and the loop of lines 151-155 starts
InitSel ==
    /\ tree \in [DOMAIN TreeLabels -> BOOLEAN]
    /\ selModels \in Seqs(ModelNames, MaxModels)
    /\ selRun = 1
    /\ selPos = 1
    /\ applied = 0
    /\ skipped = 0
    /\ raisedAt = <<{}, {}>>
    /\ okAt = <<{}, {}>>
    /\ before = tree
    /\ expanded \in [DOMAIN DialogBrands -> BOOLEAN]
    /\ brandPos = 1
    /\ campaigns = <<>>
    /\ workerCount = WORKERS
    /\ startMethod = "fork"
    /\ budget = 0
    /\ mainpc = "select"
    /\ Fresh
    /\ csvExists = FALSE
    /\ csv = <<>>
    /\ runs = 1
    /\ runBase = 0
    /\ UrlIdle

\* apply_targeting, lines 146-147: one round of the loop over the brands
ExpandBrand(fault) ==
    /\ selRun = 1
    /\ brandPos <= Len(brands)
    /\ LET r == expand_brand(expanded, brands[brandPos], fault)
       IN  IF r.exc
           THEN selRun' = -1 /\ UNCHANGED <<expanded, brandPos>>
           ELSE /\ expanded' = r.expanded
                /\ brandPos' = brandPos + 1
                /\ selRun' = selRun
    /\ UNCHANGED <<tree, selModels, selPos, applied, skipped, raisedAt, okAt, before>>
    /\ UNCHANGED <<mainVars, workerVars, ledgerVars, histVars, urlVars>>

\* apply_targeting, lines 151-155: one round of the loop over the models
CheckModel(fault) ==
    /\ selRun \in {1, 2}
    /\ brandPos > Len(brands)
    /\ selPos <= Len(selModels)
    /\ LET r == check_model(tree, Shown(expanded), selModels[selPos], fault)
       IN  IF r.exc
           THEN /\ selRun' = -1
                /\ UNCHANGED <<tree, applied, skipped, okAt, raisedAt, selPos>>
           ELSE /\ tree' = r.tree
                /\ applied' = IF r.ok THEN applied + 1 ELSE applied
                /\ skipped' = IF r.ok THEN skipped ELSE skipped + 1
                /\ okAt' = IF r.ok THEN [okAt EXCEPT ![selRun] = @ \cup {selPos}]
                           ELSE okAt
                /\ raisedAt' = IF r.raised
                               THEN [raisedAt EXCEPT ![selRun] = @ \cup {selPos}]
                               ELSE raisedAt
                /\ selPos' = selPos + 1
                /\ selRun' = selRun
    /\ UNCHANGED <<selModels, before, expanded, brandPos>>
    /\ UNCHANGED <<mainVars, workerVars, ledgerVars, histVars, urlVars>>

\* the loop is run again on the tree the first pass left, line 149 and
\* lines 151-155
SecondPass ==
    /\ selRun = 1
    /\ brandPos > Len(brands)
    /\ selPos > Len(selModels)
    /\ selRun' = 2
    /\ selPos' = 1
    /\ applied' = 0
    /\ skipped' = 0
    /\ UNCHANGED <<tree, selModels, raisedAt, okAt, before, expanded, brandPos>>
    /\ UNCHANGED <<mainVars, workerVars, ledgerVars, histVars, urlVars>>

NextSel ==
    \/ \E fault \in {"none", "lookup", "hidden", "click"} : ExpandBrand(fault)
    \/ \E fault \in {"none", "lookup", "click"} : CheckModel(fault)
    \/ SecondPass

SpecSel == InitSel /\ [][NextSel]_vars

\* ------------------------------------------ construct_campaign_url on its own
Values == UNION {[1..n -> RawChars] : n \in 0..MaxValueLen}
Fields == QueryNames \X Values
Queries == UNION {[1..n -> Fields] : n \in 0..MaxParams}

InitUrl ==
    /\ campaigns = <<>>
    /\ workerCount = 1
    /\ startMethod = "fork"
    /\ budget = 0
    /\ mainpc = "url"
    /\ Fresh
    /\ csvExists = FALSE
    /\ csv = <<>>
    /\ runs = 1
    /\ runBase = 0
    /\ SelIdle
    /\ \E q \in Queries, frag \in {"", "f"} :
          template_url = [scheme |-> "https", netloc |-> "x", path |-> "/y",
                          query |-> q, fragment |-> frag]
    /\ campaign_url = [cid |-> <<>>, url |-> NoUrl]

\* run_worker, line 249: the URL of campaign cid
ConstructUrl ==
    /\ mainpc = "url"
    /\ \E c \in {<<"A">>, <<"B", "1">>} :
          campaign_url' = [cid |-> c, url |-> construct_campaign_url(template_url, c)]
    /\ mainpc' = "built"
    /\ UNCHANGED <<campaigns, workerCount, startMethod, budget, chunks, procs>>
    /\ UNCHANGED <<workerVars, ledgerVars, histVars, selVars, template_url>>

SpecUrl == InitUrl /\ [][ConstructUrl]_vars

\* ------------------------------------------------ failing ledger appends
\* write_csv, lines 51-52: open() or writerow() raises (OSError) and the with
\* block releases the lock; nothing is appended. The SAVED row is written
\* inside safe_apply's try (line 175), so the except branch runs and builds a
\* RETRY row for the same attempt (lines 187-199); the RETRY and SKIPPED rows
\* are written inside the handler (lines 190, 202), so there the exception
\* leaves safe_apply and run_worker
WriteFault(w) ==
    /\ wpc[w] = "write"
    /\ MayFail(Cid(w))
    /\ csv_lock' = csv_lock \ {LockOf(w)}
    /\ flaky' = flaky \cup {Cid(w)}
    /\ IF Head(pending[w]).status = "SAVED"
       THEN /\ pending' = [pending EXCEPT ![w] =
                  <<Row(w, Cid(w), attempt[w], "", "", "RETRY", "OSError")>>]
            /\ wpc' = [wpc EXCEPT ![w] = "lock"]
            /\ page' = page
       ELSE /\ pending' = [pending EXCEPT ![w] = <<>>]
            /\ wpc' = [wpc EXCEPT ![w] = "crashed"]
            /\ page' = [page EXCEPT ![w] = "closed"]
    /\ UNCHANGED <<mainVars, idx, attempt, csvExists, csv, selVars, urlVars>>
    /\ UNCHANGED <<navlog, calls, fails, returned, runs, runBase>>

NextLedgerFault ==
    \/ Next
    \/ \E w \in Workers : WriteFault(w)

SpecLedgerFault == Init /\ [][NextLedgerFault]_vars

\* ------------------------------------------------ one faulty campaign
\* a run over the longest campaign list in which the driver fails for at
\* most one campaign, so that at most one worker meets an unhandled fault
InitOneFault ==
    /\ campaigns = CampaignList(MaxCampaigns)
    /\ workerCount \in 1..WORKERS
    /\ startMethod \in {"fork", "spawn"}
    /\ budget = Min(1, MaxFlaky)
    /\ mainpc = "init"
    /\ Fresh
    /\ csvExists = FALSE
    /\ csv = <<>>
    /\ runs = 1
    /\ runBase = 0
    /\ SelIdle
    /\ UrlIdle

\* the operating system keeps running whatever process can take a step
FairOneFault == InitOneFault /\ [][Next]_vars /\ WF_vars(Next)

\* ================================================================ CLAIMS
IsAttemptRow(r) == r # HeaderRow

\* the campaigns of campaigns.txt
InputCampaigns == {campaigns[i] : i \in DOMAIN campaigns}

\* the attempt rows appended to the ledger during the current run
RunRows == SelectSeq(SubSeq(csv, runBase + 1, Len(csv)), IsAttemptRow)

\* the (status, attempt) cells of the run's rows of campaign c, in order
StatusOf(c) ==
    LET Mine(r) == r.campaign_id = c
        rows == SelectSeq(RunRows, Mine)
    IN  [i \in DOMAIN rows |-> <<rows[i].status, rows[i].attempt>>]

HasRow(c, statuses) ==
    \E j \in DOMAIN RunRows :
        RunRows[j].campaign_id = c /\ RunRows[j].status \in statuses

\* no apply_targeting call and no navigation of a worker has failed
NoFailure ==
    /\ \A c \in InputCampaigns : fails[c] = 0
    /\ \A w \in Workers : wpc[w] # "crashed"

IsPrefix(a, b) == Len(a) <= Len(b) /\ SubSeq(b, 1, Len(a)) = a

\* C1 -- partition completeness: the chunks chunk_list yields, concatenated
\* in the order they are yielded, are exactly the input list, and every
\* campaign sits at exactly one place of exactly one chunk
C1_PartitionComplete ==
    mainpc \in {"start", "crashed"} =>
        /\ Flatten(chunks) = campaigns
        /\ \A i \in DOMAIN campaigns :
              Cardinality({kj \in (DOMAIN chunks) \X (DOMAIN campaigns) :
                              /\ kj[2] <= Len(chunks[kj[1]])
                              /\ chunks[kj[1]][kj[2]] = campaigns[i]}) = 1

\* several chunks were yielded, the last one shorter than the first
C1_Witness ==
    /\ mainpc = "start"
    /\ Len(chunks) >= 2
    /\ Len(chunks[Len(chunks)]) < Len(chunks[1])

\* C2 -- ledger completeness: once main() has joined every worker, every
\* campaign of the input has a SAVED or SKIPPED row written during the run
C2_LedgerComplete ==
    mainpc = "done" =>
        \A i \in DOMAIN campaigns : HasRow(campaigns[i], {"SAVED", "SKIPPED"})

\* C3 -- retry boundedness: apply_targeting is never called more than
\* MAX_RETRIES times for a campaign, and when safe_apply has returned for a
\* campaign whose every call failed, it made exactly MAX_RETRIES calls and
\* wrote RETRY rows numbered 1..MAX_RETRIES followed by one SKIPPED row
\* numbered MAX_RETRIES, and nothing else
C3_RetryBounded ==
    \A c \in InputCampaigns :
        /\ calls[c] <= MAX_RETRIES
        /\ (c \in returned /\ fails[c] = calls[c]) =>
              /\ calls[c] = MAX_RETRIES
              /\ StatusOf(c) =
                    [i \in 1..MAX_RETRIES |-> <<"RETRY", str(i)>>]
                    \o << <<"SKIPPED", str(MAX_RETRIES)>> >>

\* safe_apply has returned for a campaign whose every attempt failed
C3_Witness == \E c \in returned : fails[c] = calls[c]

\* C4 -- ledger write mutual exclusion: at most one worker at a time is
\* inside the with csv_lock section of write_csv
C4_MutualExclusion == Cardinality({w \in Workers : wpc[w] = "write"}) <= 1

\* C5 as stated -- selection idempotence: the second pass of the selection
\* loop over the same models on the tree the first pass left applies nothing
C5_SecondPassAppliesNothing == selRun = 2 => applied = 0

\* C5 as amended -- no model the first pass applied is applied again by the
\* second pass; the second pass applies only models whose check_model call
\* raised in the first pass, so it applies nothing when none raised
C5_SecondPassAppliesOnlyFailed ==
    selRun = 2 =>
        /\ okAt[2] \cap okAt[1] = {}
        /\ okAt[2] \subseteq raisedAt[1]
        /\ applied = Cardinality(okAt[2])
        /\ raisedAt[1] = {} => applied = 0

\* both passes are over; the first applied a model with no call raising, and
\* the second found every model already checked
C5_Witness ==
    /\ selRun = 2
    /\ selPos > Len(selModels)
    /\ okAt[1] # {}
    /\ raisedAt[1] = {}
    /\ applied = 0
    /\ skipped = Len(selModels)

\* the k for which entry p of worker w's navigation log is the k-th campaign
\* of its chunk
CampaignNo(w, p) == CHOOSE k \in DOMAIN Chunk(w) : Chunk(w)[k] = navlog[w][p]

IsCampaignNav(w, p) == navlog[w][p] \notin {"about:blank", "template"}

\* the two navigations of a hard reset come right before entry p
ResetBefore(w, p) ==
    /\ p >= 3
    /\ navlog[w][p - 2] = "about:blank"
    /\ navlog[w][p - 1] = "template"

\* C6 -- reset cadence: in every worker the navigation to the k-th campaign
\* of its chunk comes right after a hard reset exactly when
\* k mod RESET_EVERY = 0, and a hard reset is started at no other place
C6_ResetCadence ==
    \A w \in procs : \A p \in DOMAIN navlog[w] :
        /\ IsCampaignNav(w, p) =>
              (ResetBefore(w, p) <=> CampaignNo(w, p) % RESET_EVERY = 0)
        /\ navlog[w][p] = "about:blank" =>
              (Cardinality({q \in 1..p : IsCampaignNav(w, q)}) + 1)
                  % RESET_EVERY = 0

\* a worker whose first campaign ended SKIPPED did the reset before its
\* second campaign and went to its third without one
C6_Witness ==
    \E w \in procs :
        /\ Len(Chunk(w)) >= 3
        /\ HasRow(Chunk(w)[1], {"SKIPPED"})
        /\ navlog[w] = <<"template", Chunk(w)[1], "about:blank", "template",
                         Chunk(w)[2], Chunk(w)[3]>>

\* C7 -- skip and proceed: the step in which a worker has its SKIPPED row
\* written takes it to the next round of run_worker's loop (the next campaign
\* of its chunk, or the end of the chunk), and no failed attempt ends a
\* worker: a worker only ends early in a step that is no attempt
C7_SkipAndProceed ==
    [][\A w \in procs :
          /\ (/\ wpc[w] = "write"
              /\ Head(pending[w]).status = "SKIPPED"
              /\ wpc'[w] # "write")
             => /\ csv' = Append(csv, Head(pending[w]))
                /\ idx'[w] = idx[w] + 1
                /\ wpc'[w] = IF idx[w] < Len(Chunk(w)) THEN "iter" ELSE "close"
          /\ (wpc[w] # "crashed" /\ wpc'[w] = "crashed")
             => (fails' = fails /\ calls' = calls)]_vars

\* a campaign ended SKIPPED and its worker has since called apply_targeting
\* for the next campaign of its chunk
C7_Witness ==
    \E w \in procs : \E k \in DOMAIN Chunk(w) :
        /\ k < Len(Chunk(w))
        /\ HasRow(Chunk(w)[k], {"SKIPPED"})
        /\ calls[Chunk(w)[k + 1]] >= 1

\* C8 -- all-success run: when main() has ended and no attempt and no
\* navigation failed, the rows of the run are one SAVED row with attempt 1
\* per input campaign and nothing else; campaigns [A, B, C, D, E] with
\* workerCount 2 are partitioned as [A, B, C] and [D, E]
C8_AllSuccess ==
    /\ (mainpc \in {"done", "crashed"} /\ NoFailure) =>
          /\ Len(RunRows) = Len(campaigns)
          /\ \A i \in DOMAIN campaigns : HasRow(campaigns[i], {"SAVED"})
          /\ \A j \in DOMAIN RunRows :
                RunRows[j].status = "SAVED" /\ RunRows[j].attempt = "1"
    /\ (/\ campaigns = <<"A", "B", "C", "D", "E">>
        /\ workerCount = 2
        /\ mainpc \in {"start", "join", "done"}) =>
          chunks = << <<"A", "B", "C">>, <<"D", "E">> >>

\* the run over [A, B, C, D, E] with two workers ended without a failure and
\* left 5 rows
C8_Witness ==
    /\ campaigns = <<"A", "B", "C", "D", "E">>
    /\ workerCount = 2
    /\ mainpc = "done"
    /\ NoFailure
    /\ Len(RunRows) = 5

\* a ledger file starts with the one header row it holds
HeaderOnce ==
    IF csvExists
    THEN /\ Len(csv) >= 1
         /\ csv[1] = HeaderRow
         /\ \A i \in 2..Len(csv) : csv[i] # HeaderRow
    ELSE csv = <<>>

\* C9 -- append-only ledger, idempotent initialization: every step of every
\* run leaves the ledger's earlier content as a prefix of its content, a
\* header row is only written while the file does not exist, and the ledger
\* holds exactly one header row, as its first row
C9_AppendOnly ==
    /\ []HeaderOnce
    /\ [][/\ IsPrefix(csv, csv')
          /\ (csv' # csv /\ csv'[Len(csv')] = HeaderRow) => ~csvExists]_vars

\* a later run has appended a row to the rows an earlier run left
C9_Witness ==
    /\ runs >= 2
    /\ runBase >= 2
    /\ Len(csv) > runBase

\* C10 -- run termination: every worker terminates and main() then reports
\* completion
C10_Termination == <>(mainpc = "done" /\ \A w \in procs : Terminated(w))

\* C11 -- empty input yields zero work: with an empty campaign list the
\* partitioning raises no error, no worker is started, no attempt row is
\* appended and main() goes on to its completion report
C11_EmptyInputCompletes ==
    campaigns = <<>> =>
        /\ mainpc # "crashed"
        /\ procs = {}
        /\ RunRows = <<>>

\* the k-th of the slices of length size of lst, clipped to lst (empty past
\* its end)
SliceOf(lst, size, k) ==
    SubSeq(lst, Min((k - 1) * size, Len(lst)) + 1, Min(k * size, Len(lst)))

\* C12 -- partition count and size: the partitioner produces workerCount
\* contiguous chunks, the k-th being the k-th slice of ceil(len/workerCount)
\* campaigns, shorter or empty where the campaigns do not fill it
C12_PartitionCount ==
    mainpc = "start" =>
        LET size == (Len(campaigns) + workerCount - 1) \div workerCount
        IN  /\ Len(chunks) = workerCount
            /\ \A k \in DOMAIN chunks : chunks[k] = SliceOf(campaigns, size, k)

\* C13 -- campaign URL construction: the URL construct_campaign_url returns
\* has the one given value for campaignId, has every other query parameter
\* of the template with its original values, and has the template's scheme,
\* host and path
C13_UrlConstruction ==
    mainpc = "built" =>
        LET out == campaign_url.url
        IN  /\ ValuesOf(out.query, "campaignId") = <<campaign_url.cid>>
            /\ \A name \in QueryNames \ {"campaignId"} :
                  ValuesOf(out.query, name) = ValuesOf(template_url.query, name)
            /\ out.scheme = template_url.scheme
            /\ out.netloc = template_url.netloc
            /\ out.path = template_url.path

\* RETRY rows numbered 1..k
Retries(k) == [i \in 1..k |-> <<"RETRY", str(i)>>]

\* the worker whose chunk holds campaign c
OwnerOf(c) == CHOOSE w \in procs : \E i \in DOMAIN Chunk(w) : Chunk(w)[i] = c

\* C14 -- record shape: the rows of a campaign are RETRY rows numbered 1..k,
\* one per failed attempt, all from the worker that owns the campaign,
\* followed once safe_apply has returned by exactly one terminal row: SAVED
\* numbered k+1 when attempt k+1 succeeded (k < MAX_RETRIES), SKIPPED
\* numbered MAX_RETRIES when k = MAX_RETRIES; nothing follows the terminal row
C14_RecordShape ==
    \A c \in InputCampaigns :
        LET s == StatusOf(c)
            Mine(r) == r.campaign_id = c
            rows == SelectSeq(RunRows, Mine)
        IN  /\ \A i \in DOMAIN rows : rows[i].worker_id = str(OwnerOf(c))
            /\ \E k \in 0..MAX_RETRIES :
                  \/ /\ s = Retries(k)
                     /\ c \notin returned
                     /\ fails[c] \in {k, k + 1}
                  \/ /\ k < MAX_RETRIES
                     /\ s = Retries(k) \o << <<"SAVED", str(k + 1)>> >>
                     /\ fails[c] = k /\ calls[c] = k + 1
                  \/ /\ k = MAX_RETRIES
                     /\ s = Retries(k) \o << <<"SKIPPED", str(MAX_RETRIES)>> >>
                     /\ fails[c] = k /\ calls[c] = k

\* a campaign succeeded at its last allowed attempt, after a RETRY row for
\* each earlier one
C14_Witness ==
    \E c \in returned :
        StatusOf(c) = Retries(MAX_RETRIES - 1) \o << <<"SAVED", str(MAX_RETRIES)>> >>

\* the rows written for campaign c in this run, and the row its worker is
\* about to hand to write_csv
RowsOf(c) ==
    LET Mine(r) == r.campaign_id = c
    IN  SelectSeq(RunRows \o Flatten([i \in 1..WORKERS |-> pending[i - 1]]), Mine)

\* C15 -- no partial commit counts as success: a SAVED row for attempt n of
\* a campaign exists only if call n of apply_targeting returned, every step
\* done, and then carries the two counts; each call that raised, at whatever
\* step, has exactly one RETRY row for its attempt number, with the applied
\* and skipped cells empty, and no SAVED row
C15_NoPartialCommit ==
    \A c \in InputCampaigns :
        LET rows == RowsOf(c)
            RowsFor(n, status) ==
                {i \in DOMAIN rows : /\ rows[i].attempt = str(n)
                                     /\ rows[i].status = status}
        IN  /\ \A i \in DOMAIN rows :
                  IF rows[i].status = "SAVED"
                  THEN /\ calls[c] = fails[c] + 1
                       /\ rows[i].attempt = str(calls[c])
                       /\ rows[i].applied # "" /\ rows[i].skipped # ""
                  ELSE rows[i].applied = "" /\ rows[i].skipped = ""
            /\ \A n \in 1..fails[c] :
                  /\ Cardinality(RowsFor(n, "RETRY")) = 1
                  /\ RowsFor(n, "SAVED") = {}
            /\ \A n \in (fails[c] + 1)..MAX_RETRIES : RowsFor(n, "RETRY") = {}

\* a campaign has a RETRY row with empty counts for a failed attempt and a
\* SAVED row with counts for the next one
C15_Witness ==
    \E c \in returned :
        LET rows == RowsOf(c)
        IN  /\ fails[c] = 1
            /\ Len(rows) = 2
            /\ rows[1].status = "RETRY" /\ rows[1].applied = ""
            /\ rows[2].status = "SAVED" /\ rows[2].attempt = "2"
            /\ rows[2].applied # "" /\ rows[2].skipped # ""

\* how often campaign c is the target of a page.goto of its worker
NavCount(c) ==
    Cardinality({p \in DOMAIN navlog[OwnerOf(c)] : navlog[OwnerOf(c)][p] = c})

\* C16 -- every attempt starts with navigation: each call of apply_targeting
\* for a campaign, the first and every retry, comes after a navigation of
\* its own to the campaign's settings view
C16_AttemptStartsWithNavigation ==
    \A c \in InputCampaigns : calls[c] > 0 => NavCount(c) >= calls[c]

\* C17 -- selection failure isolation: whatever lookups and clicks fail, no
\* failure leaves expand_brand or check_model; every label of brands is
\* handled before the first model, the models are handled one by one in
\* order, a model whose check failed or that has no row is counted as
\* skipped, and the pass ends with applied + skipped = len(models)
C17_FailureIsolation ==
    /\ selRun # -1
    /\ selRun \in {1, 2} =>
          /\ brandPos \in 1..(Len(brands) + 1)
          /\ (selPos > 1 \/ selRun = 2) => brandPos = Len(brands) + 1
          /\ okAt[selRun] \cup raisedAt[selRun] \subseteq 1..(selPos - 1)
          /\ okAt[selRun] \cap raisedAt[selRun] = {}
          /\ \A i \in 1..(selPos - 1) :
                Matching(Shown(expanded), selModels[i]) = {} => i \notin okAt[selRun]
          /\ applied = Cardinality(okAt[selRun])
          /\ applied + skipped = selPos - 1
          /\ selPos > Len(selModels) => applied + skipped = Len(selModels)

\* a pass over two models has ended in which a brand row stayed collapsed,
\* one model was applied and the check of the other raised
C17_Witness ==
    /\ selRun = 1
    /\ brandPos > Len(brands)
    /\ \E b \in DOMAIN DialogBrands : ~expanded[b]
    /\ Len(selModels) = 2
    /\ selPos > Len(selModels)
    /\ okAt[1] # {}
    /\ raisedAt[1] # {}

\* C18 -- never un-select: every leaf checked before the run is checked at
\* every later point of it, and each model counted as applied, in either
\* pass, turned one more unchecked leaf into a checked one; check_model
\* toggles nothing else
C18_NeverUnselect ==
    selRun \in {1, 2} =>
        /\ \A i \in DOMAIN tree : before[i] => tree[i]
        /\ Cardinality({i \in DOMAIN tree : tree[i] /\ ~before[i]})
              = Cardinality(okAt[1]) + Cardinality(okAt[2])
        /\ \A i \in DOMAIN tree : (tree[i] /\ ~before[i]) => i \in Shown(expanded)

\* a pass over a list naming the same model twice has ended: the first entry
\* was applied, the second found the leaf checked, and a leaf checked before
\* the run is still checked
C18_Witness ==
    /\ selRun = 1
    /\ Len(selModels) = 2
    /\ selModels[1] = selModels[2]
    /\ selPos > Len(selModels)
    /\ okAt[1] = {1}
    /\ raisedAt[1] = {}
    /\ \E i \in DOMAIN tree : before[i]

\* C19 -- no re-execution after a successful attempt: once a call of
\* apply_targeting for a campaign has returned, no further call is made for
\* it and no RETRY row beyond those of its failed calls and no SKIPPED row is
\* recorded for it, also when the append of the SAVED row fails
C19_NoReExecution ==
    \A c \in InputCampaigns :
        calls[c] > fails[c] =>
            LET rows == RowsOf(c)
            IN  /\ calls[c] = fails[c] + 1
                /\ Cardinality({i \in DOMAIN rows : rows[i].status = "RETRY"})
                      <= fails[c]
                /\ \A i \in DOMAIN rows : rows[i].status # "SKIPPED"

\* the step ends worker w with an unhandled exception
Crashes(w) == wpc[w] # "crashed" /\ wpc'[w] = "crashed"

\* C20 -- worker fault isolation: a step in which a navigation of run_worker
\* raises ends that worker and changes nothing of any other worker or of
\* main(); when main() has reported completion every worker it started has
\* terminated and every worker that did not crash has a SAVED or SKIPPED row
\* for each campaign of its chunk; and once a worker has crashed main() still
\* gets to join all workers and report completion
C20_FaultIsolation ==
    /\ [](mainpc = "done" =>
            \A w \in procs :
                /\ Terminated(w)
                /\ wpc[w] = "done" =>
                      \A i \in DOMAIN Chunk(w) :
                          HasRow(Chunk(w)[i], {"SAVED", "SKIPPED"}))
    /\ [][\A w \in Workers :
            Crashes(w) =>
                /\ mainpc' = mainpc
                /\ \A v \in Workers \ {w} :
                      /\ wpc'[v] = wpc[v] /\ idx'[v] = idx[v]
                      /\ attempt'[v] = attempt[v] /\ page'[v] = page[v]
                      /\ pending'[v] = pending[v]]_vars
    /\ ((\E w \in Workers : wpc[w] = "crashed") ~> (mainpc = "done"))

\* main() has reported completion after one worker crashed and another one
\* worked through its chunk
C20_Witness ==
    /\ mainpc = "done"
    /\ \E w, v \in procs :
          /\ wpc[w] = "crashed"
          /\ wpc[v] = "done"
          /\ HasRow(Chunk(v)[Len(Chunk(v))], {"SAVED", "SKIPPED"})

====
